---- MODULE Spec2Model ----
(***************************************************************************)
(* TrafficToll: the shaping controller (traffictoll/cli.py, tc.py,         *)
(* utils.py, speedtest.py, __main__.py) as a state machine.                *)
(*                                                                         *)
(* The process is single-threaded.  One action is one step of main(): at   *)
(* most one external command (utils.run) together with the bookkeeping     *)
(* that follows it, so that a KeyboardInterrupt or an exception can cut    *)
(* the run between any two commands.  The kernel (qdiscs, classes, u32     *)
(* filters, interfaces, the ifb module) is part of the state; an external  *)
(* command either takes effect and exits 0 or changes nothing and exits    *)
(* nonzero.                                                                *)
(***************************************************************************)
EXTENDS Integers, Sequences, FiniteSets, TLC

\* ---------------------------------------------------------------- bounds
\* Local ports are 1..MaxPort.
MaxPort == 2
\* u32 node ids the kernel can hand out per priority on one qdisc.
MaxHandles == 3
\* External commands that may exit nonzero for no reason visible in the model.
MaxFailures == 1
\* Reconciliation ticks a run goes through before it only sleeps.
MaxTicks == 2

\* ------------------------------------------------------ program constants
\* tc.py:130-137: tc_setup has six parameters.
TcSetupParams == 6
\* cli.py:182-190: main passes seven positional arguments to tc_setup.
MainCallArgs == 7
\* tc.py:15
MAX_RATE == "4294967295"
\* cli.py:25-28
GLOBAL_MINIMUM_DOWNLOAD_RATE == "100kbps"
GLOBAL_MINIMUM_UPLOAD_RATE == "10kbps"
MINIMUM_DOWNLOAD_RATE == "10kbps"
MINIMUM_UPLOAD_RATE == "1kbps"

\* Python's None for a rate, a priority, a name.
None == "None"
NoPriority == -1

\* cli.py:31-33: _TrafficType.  Ingress is shaped on the IFB device, egress
\* on the real device.
Ingress == "Ingress"
Egress == "Egress"
TrafficType == {Ingress, Egress}

Ports == 1..MaxPort
\* The process groups of the configuration, in the order of the mapping.
GroupOrder == <<"a", "b">>
Groups == {GroupOrder[i] : i \in 1..Len(GroupOrder)}
IfbNames == {"ifb0", "ifb1"}

\* A u32 filter handle <<prio, node>>: the kernel keeps one hash table per
\* priority, and names a filter by table and node (FILTER_ID_REGEX, tc.py:17).
NoHandle == <<0, 0>>
Handles(prio) == {<<prio, n>> : n \in 1..MaxHandles}

\* ------------------------------------------------------------- the inputs
\* One group record of the configuration (cli.py:198-247): whether it has
\* match conditions, and its optional rates and priorities.
GroupRecord(m, d, u, dp, up) ==
    [match |-> m, recursive |-> FALSE, download |-> d, upload |-> u,
     download_minimum |-> None, upload_minimum |-> None,
     download_priority |-> dp, upload_priority |-> up]
\* The same group with `download-minimum` and `upload-minimum`
\* (cli.py:214, 233).
WithMinimum(p, dm, um) == [p EXCEPT !.download_minimum = dm, !.upload_minimum = um]
\* The same group with `recursive: true` (cli.py:209-210).
Recursive(p) == [p EXCEPT !.recursive = TRUE]
BothSides == GroupRecord(TRUE, "2mbps", "1mbps", NoPriority, NoPriority)
DownloadOnly == GroupRecord(TRUE, "2mbps", None, NoPriority, NoPriority)
UploadPriorityOnly == GroupRecord(TRUE, None, None, NoPriority, 1)
NoMatch == GroupRecord(FALSE, "2mbps", "1mbps", NoPriority, NoPriority)

\* The `processes` mappings the model starts from.
ProcessConfigs ==
    { [g \in Groups |-> IF g = "a" THEN Recursive(BothSides) ELSE DownloadOnly],
      [g \in Groups |-> IF g = "a" THEN DownloadOnly ELSE UploadPriorityOnly],
      [g \in Groups |-> IF g = "a" THEN BothSides ELSE NoMatch] }
OneGroup == [g \in Groups |-> IF g = "a" THEN BothSides ELSE NoMatch]

\* The ifb interfaces and the ifb module found at startup
\* (psutil.net_if_stats, tc.py:57).
Host(ifb0, ifb1, module) ==
    [ifs |-> [n \in IfbNames |-> IF n = "ifb0" THEN ifb0 ELSE ifb1], module |-> module]
HostStates ==
    { Host("absent", "absent", FALSE),
      Host("absent", "absent", TRUE),
      Host("down", "absent", TRUE),
      Host("up", "absent", TRUE),
      Host("down", "up", TRUE) }

\* The runs the model starts: every `processes` mapping on a host without
\* ifb, and the one-group mapping on every host, with and without
\* --speed-test, with and without global rates.  Each of them with the call
\* of tc_setup as main writes it (seven arguments) and with a call that binds
\* (six).
Run(n, st, rate, procs, host) ==
    [nargs |-> n, speed_test |-> st,
     config |-> [download |-> rate, upload |-> rate, processes |-> procs],
     host0 |-> host]
Runs ==
    UNION { { Run(n, FALSE, "8mbps", p, Host("absent", "absent", FALSE)) : p \in ProcessConfigs }
            \cup { Run(n, FALSE, "8mbps", OneGroup, h) : h \in HostStates }
            \cup { Run(n, st, r, OneGroup, Host("up", "absent", TRUE)) :
                     st \in BOOLEAN, r \in {None, "8mbps"} }
          : n \in {TcSetupParams, MainCallArgs} }

VARIABLES
    \* inputs, fixed at startup
    nargs,              \* positional arguments the tc_setup call binds
    speed_test,         \* arguments.speed_test
    config,             \* the loaded configuration
    host0,              \* the host state found at startup
    \* control
    pc,                 \* position in main / tc_setup / atexit
    exc,                \* the exception that ended main, or None
    logged,             \* what __main__.main logged on the way out
    exit_code,          \* -1 while running
    failures,           \* commands that exited nonzero without a modelled cause
    \* host and kernel
    interfaces,         \* ifb name -> "absent" | "down" | "up"
    module_loaded,      \* the ifb module
    ingress_attached,   \* the ffff: ingress qdisc on the real device
    redirect,           \* the mirred redirect filter on the ingress qdisc
    htb,                \* side -> root HTB qdisc present
    classes,            \* side -> set of class records
    filters,            \* side -> set of u32 filter records on the HTB qdisc
    \* main's locals
    global_download_rate, global_upload_rate,
    ifb_device,
    root_class_id,      \* side -> QDisc.root_class_id (0 before it is known)
    class_ids,          \* side -> group -> leaf class id (0: no entry)
    port_to_filter_id,  \* side -> port -> handle (NoHandle: no entry)
    filtered_ports,     \* group -> set of ports
    tracked,            \* the keys of filtered_ports
    atexit_stack,       \* registered exit handlers, last registered last
    registered,         \* every handler registered so far, in order
    pass,               \* the run of the exit handlers in progress
    rmmod_path,         \* utils._which's cached answer for rmmod (None: not asked)
    \* the tick in progress
    current,            \* filter_net_connections' result: group -> ports
    present,            \* its keys
    queue,              \* the groups still to process, in iteration order
    name,               \* the group being processed
    new_ports, freed_ports,
    before,             \* tc_add_u32_filter's `before`
    side,               \* the side the current step works on
    default_class_id,   \* side -> tc_setup's default leaf class id (0: not yet)
    \* history
    ticks,              \* reconciliation ticks started
    command_log,        \* the release commands issued so far
    \* one call of _find_free_id on its own
    used_ids,           \* its argument `ids`
    free_id             \* what it returned (0: not called)

vars == <<nargs, speed_test, config, host0, pc, exc, logged, exit_code, failures,
          interfaces, module_loaded, ingress_attached, redirect, htb, classes,
          filters, global_download_rate, global_upload_rate, ifb_device,
          root_class_id, class_ids, port_to_filter_id, filtered_ports, tracked,
          atexit_stack, registered, pass, rmmod_path, current, present, queue, name, new_ports,
          freed_ports, before, side, default_class_id, ticks, command_log,
          used_ids, free_id>>

inputVars == <<nargs, speed_test, config, host0>>
kernelVars == <<interfaces, module_loaded, ingress_attached, redirect, htb,
                classes, filters>>
loopVars == <<class_ids, port_to_filter_id, filtered_ports, tracked>>
tickVars == <<current, present, queue, name, new_ports, freed_ports, before>>
mainRates == <<global_download_rate, global_upload_rate>>
setupVars == <<ifb_device, root_class_id, default_class_id>>
ctlVars == <<exc, logged, exit_code>>
freeIdVars == <<used_ids, free_id>>

\* The state in which main starts one of the runs, with f commands already
\* counted as failed (f = MaxFailures: no command fails without a cause).
Started(runs, f) ==
    /\ \E r \in runs :
         /\ nargs = r.nargs
         /\ speed_test = r.speed_test
         /\ config = r.config
         /\ host0 = r.host0
    /\ pc = "speed_test"
    /\ exc = None
    /\ logged = None
    /\ exit_code = -1
    /\ failures = f
    /\ interfaces = host0.ifs
    /\ module_loaded = host0.module
    /\ ingress_attached = FALSE
    /\ redirect = FALSE
    /\ htb = [s \in TrafficType |-> FALSE]
    /\ classes = [s \in TrafficType |-> {}]
    /\ filters = [s \in TrafficType |-> {}]
    /\ global_download_rate = None
    /\ global_upload_rate = None
    /\ ifb_device = None
    /\ root_class_id = [s \in TrafficType |-> 0]
    /\ class_ids = [s \in TrafficType |-> [g \in Groups |-> 0]]
    /\ port_to_filter_id = [s \in TrafficType |-> [p \in Ports |-> NoHandle]]
    /\ filtered_ports = [g \in Groups |-> {}]
    /\ tracked = {}
    /\ atexit_stack = <<>>
    /\ registered = <<>>
    /\ pass = 1
    /\ rmmod_path = None
    /\ current = [g \in Groups |-> {}]
    /\ present = {}
    /\ queue = <<>>
    /\ name = None
    /\ new_ports = <<>>
    /\ freed_ports = <<>>
    /\ before = {}
    /\ side = Ingress
    /\ default_class_id = [s \in TrafficType |-> 0]
    /\ ticks = 0
    /\ command_log = <<>>

\* No call of _find_free_id on its own.
NoFreeIdCall == used_ids = {} /\ free_id = 0

Init == Started(Runs, 0) /\ NoFreeIdCall

\* ---------------------------------------------------------------- helpers
Max(a, b) == IF a >= b THEN a ELSE b

\* sorted(set): the ascending sequence of a set of integers.
RECURSIVE Sorted(_)
Sorted(S) ==
    IF S = {} THEN <<>>
    ELSE LET m == CHOOSE x \in S : \A y \in S : x <= y
         IN  <<m>> \o Sorted(S \ {m})

\* utils.run does not look at the return code (utils.py:25): a command that
\* exits nonzero has changed nothing and the caller goes on.  ok = FALSE is
\* such an exit with no cause in the modelled kernel state.
Outcomes == {TRUE} \cup (IF failures < MaxFailures THEN {FALSE} ELSE {})
Count(ok) == failures' = IF ok THEN failures ELSE failures + 1

\* utils.run raises RuntimeError when shutil.which finds no executable
\* (utils.py:19-22); an exception leaves main for __main__.main's handlers.
Raise(e) ==
    /\ pc' = "except"
    /\ exc' = e
    /\ UNCHANGED <<logged, exit_code>>

\* What subprocess.run(..., check=True) would do: raise CalledProcessError
\* on a nonzero exit status.
run_checked(exit0) == ~exit0

\* utils.py:25: subprocess.run(...) without check=True raises nothing,
\* whatever the exit status (exit0: the command exited with status 0).
run_raises(exit0) == FALSE

\* After a command inside main: on to position next, unless run raised.
Continue(exit0, next) ==
    IF run_raises(exit0)
    THEN Raise("CalledProcessError")
    ELSE pc' = next /\ UNCHANGED ctlVars

\* tc.py:74-81
RECURSIVE FindFrom(_, _)
FindFrom(ids, cur) == IF cur \in ids THEN FindFrom(ids, cur + 1) ELSE cur

\* The id after the greatest one in use, whatever gaps there are below it.
AfterGreatestId(ids) ==
    IF ids = {} THEN 1 ELSE (CHOOSE x \in ids : \A y \in ids : y <= x) + 1

\* tc.py:78-81: current = 1; while current in ids: current += 1.
_find_free_id(ids) == FindFrom(ids, 1)

\* tc.py:111-127: the class ids listed for the qdisc of a side.
_get_free_class_id(s) == _find_free_id({c.id : c \in classes[s]})

\* tc.py:206-216: the handles `tc filter show dev` lists for the root qdisc.
_get_filter_ids(s) == {f.fh : f \in filters[s]}

\* tc.py:207-216 with utils.py:25: the set _get_filter_ids returns.  The exit
\* status of `tc filter show` is not looked at; a run that fails prints no
\* filter line and the set is empty.
Listed(s, ok) == IF ok THEN _get_filter_ids(s) ELSE {}

\* The handles the kernel can give a new filter of priority prio on side s,
\* and the one it gives: cls_u32 takes the lowest free node id of the table.
FreeHandles(s, prio) == Handles(prio) \ _get_filter_ids(s)
NewHandle(s, prio) ==
    CHOOSE h \in FreeHandles(s, prio) : \A x \in FreeHandles(s, prio) : h[2] <= x[2]

\* cli.py:129-133
RECURSIVE LowestOver(_, _, _)
LowestOver(procs, i, acc) ==
    IF i > Len(GroupOrder) THEN acc
    ELSE LET p == procs[GroupOrder[i]]
             u == Max(p.upload_priority, acc)
         IN  LowestOver(procs, i + 1, Max(p.download_priority, u))
\* The greatest priority itself, without the increment of cli.py:133.
lowest_priority_not_incremented == LowestOver(config.processes, 1, -1)
lowest_priority == LowestOver(config.processes, 1, -1) + 1

\* cli.py:135-136 (the configurations modelled set no top-level priority)
global_download_priority == lowest_priority
global_upload_priority == lowest_priority

\* cli.py:138-143, 160-165
global_download_minimum_rate == GLOBAL_MINIMUM_DOWNLOAD_RATE
global_upload_minimum_rate == GLOBAL_MINIMUM_UPLOAD_RATE

\* tc_setup's parameters as the call binds them positionally (tc.py:130-137).
SetupRate(s) == IF s = Ingress THEN global_download_rate ELSE global_upload_rate
SetupMinimumRate(s) ==
    IF s = Ingress THEN global_download_minimum_rate ELSE global_upload_minimum_rate
default_priority == global_download_priority

\* ------------------------------------------------------------ speed test
\* speedtest.py:57-74 on what the speedtest executable does: found on PATH or
\* not, the provider its --version names, its JSON output usable or not.
test_speed(found, provider, output) ==
    IF ~found THEN [raises |-> "RuntimeError", ok |-> FALSE]
    ELSE IF provider = "Unknown" THEN [raises |-> None, ok |-> FALSE]
    ELSE IF output = "bad" THEN [raises |-> "DependencyOutputError", ok |-> FALSE]
    ELSE [raises |-> None, ok |-> TRUE]

\* cli.py:82-122
SpeedTest ==
    /\ pc = "speed_test"
    /\ \E found \in BOOLEAN, provider \in {"Ookla", "Unknown"}, output \in {"json", "bad"} :
         LET r == test_speed(found, provider, output)
             caught == r.raises \in {None, "MissingDependencyError", "DependencyOutputError"}
             cd == IF speed_test /\ r.ok THEN "measured_download" ELSE config.download
             cu == IF speed_test /\ r.ok THEN "measured_upload" ELSE config.upload
         IN  /\ ~speed_test => (found /\ provider = "Ookla" /\ output = "json")
             /\ IF speed_test /\ ~caught
                THEN /\ Raise(r.raises)
                     /\ UNCHANGED mainRates
                ELSE /\ global_download_rate' = (IF cd = None THEN MAX_RATE ELSE cd)
                     /\ global_upload_rate' = (IF cu = None THEN MAX_RATE ELSE cu)
                     /\ pc' = "tc_setup_call"
                     /\ UNCHANGED ctlVars
    /\ UNCHANGED <<inputVars, pass, freeIdVars, failures, kernelVars, setupVars, loopVars, tickVars,
                   side, atexit_stack, registered, ticks, rmmod_path, command_log>>

\* cli.py:182-190: the call of tc_setup.  Python binds positional arguments
\* to parameters before the body runs and raises TypeError when there are
\* more arguments than parameters.
TcSetupCall ==
    /\ pc = "tc_setup_call"
    /\ IF nargs > TcSetupParams
       THEN Raise("TypeError")
       ELSE pc' = "attach_ingress" /\ UNCHANGED ctlVars
    /\ UNCHANGED <<inputVars, pass, freeIdVars, failures, kernelVars, mainRates, setupVars, loopVars,
                   tickVars, side, atexit_stack, registered, ticks, rmmod_path, command_log>>

\* tc.py:139: tc qdisc add dev <device> handle ffff: ingress.  The first use
\* of tc: it is on PATH or it is not.
AttachIngress ==
    /\ pc = "attach_ingress"
    /\ \E found \in BOOLEAN :
         IF ~found
         THEN /\ Raise("RuntimeError")
              /\ UNCHANGED <<failures, ingress_attached>>
         ELSE \E ok \in Outcomes :
                /\ Count(ok)
                /\ ingress_attached' = (ingress_attached \/ ok)
                /\ Continue(ok /\ ~ingress_attached, "acquire_ifb")
    /\ UNCHANGED <<inputVars, pass, freeIdVars, interfaces, module_loaded, redirect, htb, classes,
                   filters, mainRates, setupVars, loopVars, tickVars, side,
                   atexit_stack, registered, ticks, rmmod_path, command_log>>

\* ------------------------------------------------------------ IFB device
\* tc.py:58-60: the first interface, in listing order, named ifb<digits>.
FirstIfb ==
    IF interfaces["ifb0"] # "absent" THEN "ifb0"
    ELSE IF interfaces["ifb1"] # "absent" THEN "ifb1"
    ELSE None

\* The handlers tc.py registers with atexit (tc.py:65, 70) and the one cli.py
\* registers (cli.py:191).
ShutdownIfbHandler(dev) ==
    [fn |-> "tc._clean_up", remove_ifb_device |-> FALSE, shutdown_ifb_device |-> dev]
RemoveIfbHandler ==
    [fn |-> "tc._clean_up", remove_ifb_device |-> TRUE, shutdown_ifb_device |-> None]
QDiscHandler ==
    [fn |-> "cli._clean_up", remove_ifb_device |-> FALSE, shutdown_ifb_device |-> None]

\* A registration that puts the handler under the ones already there: the
\* handlers would run first registered first.
RegisterFirst(stack, h) == <<h>> \o stack

\* atexit.register: the handler goes on top of the stack.
Register(stack, h) == Append(stack, h)

\* tc.py:41-42: ip link set dev <name> up.
Activated(ifs, dev, ok) ==
    IF ok /\ ifs[dev] # "absent" THEN [ifs EXCEPT ![dev] = "up"] ELSE ifs

\* tc.py:56-71, up to the call of _create_ifb_device.
AcquireIfb ==
    /\ pc = "acquire_ifb"
    /\ LET dev == FirstIfb IN
         IF dev # None /\ interfaces[dev] = "up"
         THEN /\ ifb_device' = dev
              /\ pc' = "redirect"
              /\ UNCHANGED <<ctlVars, failures, interfaces, atexit_stack, registered>>
         ELSE IF dev # None
         THEN \E found \in BOOLEAN :
                IF ~found
                THEN /\ Raise("RuntimeError")
                     /\ UNCHANGED <<failures, interfaces, atexit_stack, registered, ifb_device>>
                ELSE \E ok \in Outcomes :
                       /\ Count(ok)
                       /\ interfaces' = Activated(interfaces, dev, ok)
                       /\ atexit_stack' = IF run_raises(ok) THEN atexit_stack
                                          ELSE Register(atexit_stack, ShutdownIfbHandler(dev))
                       /\ registered' = IF run_raises(ok) THEN registered
                                        ELSE Append(registered, ShutdownIfbHandler(dev))
                       /\ ifb_device' = dev
                       /\ Continue(ok, "redirect")
         ELSE /\ atexit_stack' = Register(atexit_stack, RemoveIfbHandler)
              /\ registered' = Append(registered, RemoveIfbHandler)
              /\ pc' = "create_ifb"
              /\ UNCHANGED <<ctlVars, failures, interfaces, ifb_device>>
    /\ UNCHANGED <<inputVars, pass, freeIdVars, module_loaded, ingress_attached, redirect, htb, classes,
                   filters, mainRates, root_class_id, default_class_id, loopVars,
                   tickVars, side, ticks, rmmod_path, command_log>>

\* tc.py:45-51: modprobe ifb numifbs=1 and the interface it adds.  Loading
\* creates ifb0; with the module already loaded modprobe does nothing and
\* exits 0.  No new interface: set().pop() raises KeyError.
CreateIfb ==
    /\ pc = "create_ifb"
    /\ \E found \in BOOLEAN :
         IF ~found
         THEN /\ Raise("RuntimeError")
              /\ UNCHANGED <<failures, interfaces, module_loaded, ifb_device>>
         ELSE \E ok \in Outcomes :
                LET loads == ok /\ ~module_loaded
                    after == IF loads THEN [interfaces EXCEPT !["ifb0"] = "down"]
                             ELSE interfaces
                    difference == {n \in IfbNames : after[n] # "absent"}
                                    \ {n \in IfbNames : interfaces[n] # "absent"}
                IN  /\ Count(ok)
                    /\ interfaces' = after
                    /\ module_loaded' = (module_loaded \/ loads)
                    /\ IF run_raises(ok)
                       THEN /\ Raise("CalledProcessError")
                            /\ UNCHANGED ifb_device
                       ELSE IF difference = {}
                       THEN /\ Raise("KeyError")
                            /\ UNCHANGED ifb_device
                       ELSE /\ \E n \in difference : ifb_device' = n
                            /\ pc' = "activate_ifb"
                            /\ UNCHANGED ctlVars
    /\ UNCHANGED <<inputVars, pass, freeIdVars, ingress_attached, redirect, htb, classes, filters,
                   mainRates, root_class_id, default_class_id, loopVars, tickVars,
                   side, atexit_stack, registered, ticks, rmmod_path, command_log>>

\* tc.py:52-53: _activate_device on the interface just created.
ActivateIfb ==
    /\ pc = "activate_ifb"
    /\ \E found \in BOOLEAN :
         IF ~found
         THEN /\ Raise("RuntimeError")
              /\ UNCHANGED <<failures, interfaces>>
         ELSE \E ok \in Outcomes :
                /\ Count(ok)
                /\ interfaces' = Activated(interfaces, ifb_device, ok)
                /\ Continue(ok, "redirect")
    /\ UNCHANGED <<inputVars, pass, freeIdVars, module_loaded, ingress_attached, redirect, htb, classes,
                   filters, mainRates, setupVars, loopVars, tickVars, side,
                   atexit_stack, registered, ticks, rmmod_path, command_log>>

\* tc.py:141-144: tc filter add dev <device> parent ffff: ... mirred egress
\* redirect dev <ifb_device>; it needs the ingress qdisc.
Redirect ==
    /\ pc = "redirect"
    /\ \E ok \in Outcomes :
         /\ Count(ok)
         /\ redirect' = (redirect \/ (ok /\ ingress_attached))
         /\ Continue(ok /\ ingress_attached, "qdisc")
    /\ side' = Ingress
    /\ UNCHANGED <<inputVars, pass, freeIdVars, interfaces, module_loaded, ingress_attached,
                   htb, classes, filters, mainRates, setupVars, loopVars, tickVars,
                   atexit_stack, registered, ticks, rmmod_path, command_log>>

\* ------------------------------------------------------------- HTB trees
\* The kernel's answer to `tc class add ... parent <parent> classid <id>`:
\* the qdisc and the parent must exist and the id must be new.  parent 0 is
\* the qdisc itself.
ClassAdded(s, id, parent, rate, ceil, prio, ok) ==
    IF /\ ok
       /\ htb[s]
       /\ id \notin {c.id : c \in classes[s]}
       /\ (parent = 0 \/ parent \in {c.id : c \in classes[s]})
    THEN classes[s] \cup {[id |-> id, parent |-> parent, rate |-> rate,
                           ceil |-> ceil, prio |-> prio]}
    ELSE classes[s]

\* tc.py:147-148, 167-168: tc qdisc add dev <dev> root handle <id>: htb.
AddRootQdisc ==
    /\ pc = "qdisc"
    /\ \E ok \in Outcomes :
         /\ Count(ok)
         /\ htb' = [htb EXCEPT ![side] = htb[side] \/ ok]
         /\ Continue(ok /\ ~htb[side], "root_class")
    /\ UNCHANGED <<inputVars, pass, freeIdVars, interfaces, module_loaded, ingress_attached,
                   redirect, classes, filters, mainRates, setupVars, loopVars,
                   tickVars, side, atexit_stack, registered, ticks, rmmod_path, command_log>>

\* tc.py:149-155, 169-174: the root class, limited at the global rate.
AddRootClass ==
    /\ pc = "root_class"
    /\ LET id == _get_free_class_id(side) IN
         \E ok \in Outcomes :
           /\ Count(ok)
           /\ classes' = [classes EXCEPT
                            ![side] = ClassAdded(side, id, 0, SetupRate(side), None,
                                                 NoPriority, ok)]
           /\ root_class_id' = [root_class_id EXCEPT ![side] = id]
           /\ Continue(classes'[side] # classes[side], "default_class")
    /\ UNCHANGED <<inputVars, pass, freeIdVars, interfaces, module_loaded, ingress_attached,
                   redirect, htb, filters, mainRates, ifb_device, default_class_id,
                   loopVars, tickVars, side, atexit_stack, registered, ticks, rmmod_path,
                   command_log>>

\* tc.py:189-203: tc_add_htb_class, the class set it leaves.
tc_add_htb_class(s, ceil, rate, priority, ok) ==
    ClassAdded(s, _get_free_class_id(s), root_class_id[s], rate, ceil, priority, ok)

\* tc.py:158-160, 178-180: the default leaf class of a side.
AddDefaultClass ==
    /\ pc = "default_class"
    /\ \E ok \in Outcomes :
         /\ Count(ok)
         /\ classes' = [classes EXCEPT
                          ![side] = tc_add_htb_class(side, SetupRate(side),
                                                     SetupMinimumRate(side),
                                                     default_priority, ok)]
         /\ Continue(classes'[side] # classes[side], "catchall")
    /\ default_class_id' = [default_class_id EXCEPT ![side] = _get_free_class_id(side)]
    /\ UNCHANGED <<inputVars, pass, freeIdVars, interfaces, module_loaded, ingress_attached,
                   redirect, htb, filters, mainRates, ifb_device, root_class_id,
                   loopVars, tickVars, side, atexit_stack, registered, ticks, rmmod_path,
                   command_log>>

\* The kernel's answer to `tc filter add ... prio <prio> u32 <match> flowid`:
\* the qdisc must exist and the priority's table must have a free node.
\* port 0 stands for `match u32 0 0`.
FilterAdded(s, prio, port, flowid, ok) ==
    IF ok /\ htb[s] /\ FreeHandles(s, prio) # {}
    THEN {filters[s] \cup {[fh |-> NewHandle(s, prio), prio |-> prio, port |-> port,
                             flowid |-> flowid]}}
    ELSE {filters[s]}

\* tc.py:161-164, 181-186: the priority-2 catch-all filter of a side; after
\* the egress one tc_setup returns.
AddCatchAll ==
    /\ pc = "catchall"
    /\ \E ok \in Outcomes :
         /\ Count(ok)
         /\ \E fs \in FilterAdded(side, 2, 0, default_class_id[side], ok) :
              /\ filters' = [filters EXCEPT ![side] = fs]
              /\ Continue(fs # filters[side],
                          IF side = Ingress THEN "qdisc" ELSE "register_clean_up")
    /\ side' = (IF side = Ingress THEN Egress ELSE Ingress)
    /\ UNCHANGED <<inputVars, pass, freeIdVars, interfaces, module_loaded, ingress_attached,
                   redirect, htb, classes, mainRates, setupVars, loopVars, tickVars,
                   atexit_stack, registered, ticks, rmmod_path, command_log>>

\* cli.py:191-197: atexit.register(_clean_up, ...), then the group loop starts.
RegisterCleanUp ==
    /\ pc = "register_clean_up"
    /\ atexit_stack' = Register(atexit_stack, QDiscHandler)
    /\ registered' = Append(registered, QDiscHandler)
    /\ queue' = GroupOrder
    /\ side' = Ingress
    /\ pc' = "group_class"
    /\ UNCHANGED <<inputVars, pass, freeIdVars, ctlVars, failures, kernelVars, mainRates, setupVars,
                   loopVars, current, present, name, new_ports, freed_ports, before,
                   ticks, rmmod_path, command_log>>

\* cli.py:213-247: a group's effective ceiling, floor and priority on a side.
GroupRate(p, s) ==
    IF s = Ingress
    THEN (IF p.download = None THEN global_download_rate ELSE p.download)
    ELSE (IF p.upload = None THEN global_upload_rate ELSE p.upload)
GroupMinimumRate(p, s) ==
    IF s = Ingress
    THEN (IF p.download_minimum = None THEN MINIMUM_DOWNLOAD_RATE ELSE p.download_minimum)
    ELSE (IF p.upload_minimum = None THEN MINIMUM_UPLOAD_RATE ELSE p.upload_minimum)
GroupPriority(p, s) ==
    LET c == IF s = Ingress THEN p.download_priority ELSE p.upload_priority
    IN  IF c = NoPriority THEN lowest_priority ELSE c
\* A leaf for a configured minimum as well.
WantsLeafOrMinimum(p, s) ==
    IF s = Ingress
    THEN p.download # None \/ p.download_priority # NoPriority \/ p.download_minimum # None
    ELSE p.upload # None \/ p.upload_priority # NoPriority \/ p.upload_minimum # None
\* cli.py:249, 262, 275, 288: a leaf is set up when the rate or the priority
\* of the direction is configured.
WantsLeaf(p, s) ==
    IF s = Ingress
    THEN p.download # None \/ p.download_priority # NoPriority
    ELSE p.upload # None \/ p.upload_priority # NoPriority

\* cli.py:198-299: one group and one side of the class set-up loop.
GroupClass ==
    /\ pc = "group_class"
    /\ IF queue = <<>>
       THEN /\ pc' = "tick"
            /\ UNCHANGED <<ctlVars, failures, classes, class_ids, queue, side>>
       ELSE LET g == Head(queue)
                p == config.processes[g]
            IN  /\ IF ~p.match
                   THEN /\ queue' = Tail(queue)
                        /\ pc' = pc
                        /\ UNCHANGED <<ctlVars, failures, classes, class_ids, side>>
                   ELSE /\ IF WantsLeaf(p, side)
                           THEN \E ok \in Outcomes :
                                  /\ Count(ok)
                                  /\ classes' = [classes EXCEPT
                                       ![side] = tc_add_htb_class(side, GroupRate(p, side),
                                                     GroupMinimumRate(p, side),
                                                     GroupPriority(p, side), ok)]
                                  /\ class_ids' = [class_ids EXCEPT
                                       ![side][g] = _get_free_class_id(side)]
                                  /\ Continue(classes'[side] # classes[side], pc)
                           ELSE /\ pc' = pc
                                /\ UNCHANGED <<ctlVars, failures, classes, class_ids>>
                        /\ IF side = Ingress
                           THEN side' = Egress /\ UNCHANGED queue
                           ELSE side' = Ingress /\ queue' = Tail(queue)
    /\ UNCHANGED <<inputVars, pass, freeIdVars, interfaces, module_loaded, ingress_attached,
                   redirect, htb, filters, mainRates, setupVars, port_to_filter_id,
                   filtered_ports, tracked, current, present, name, new_ports,
                   freed_ports, before, atexit_stack, registered, ticks, rmmod_path, command_log>>

\* ---------------------------------------------------- reconciliation loop
\* The orders in which a dict with the keys S can be iterated.
RECURSIVE Orders(_)
Orders(S) ==
    IF S = {} THEN {<<>>}
    ELSE UNION {{<<x>> \o t : t \in Orders(S \ {x})} : x \in S}

\* cli.py:193-210: the groups that got a predicate.
Predicated == {g \in Groups : config.processes[g].match}

\* Where in a pass of filter_net_connections a process can turn out to be
\* gone: while _match_process reads its attributes (net.py:38), in
\* process.connections() (net.py:41), in process.children(recursive=True)
\* (net.py:50), in child.connections() (net.py:52).
Races == {None, "attributes", "connections", "children", "child_connections"}

\* net.py:32-57: what a pass does when a process is gone at `died`.
\* psutil raises NoSuchProcess; the handlers of net.py:42 and net.py:53
\* cover lines 38-41 and line 52.  Line 50 is outside both, and is reached
\* for a matched process of a recursive predicate.
filter_net_connections(keys, died) ==
    IF died = "children" /\ \E g \in keys : config.processes[g].recursive
    THEN "NoSuchProcess"
    ELSE None

\* cli.py:331, net.py:32-57: filter_net_connections returns, for any subset
\* of the predicated groups, any set of local ports, keyed in any order,
\* unless an exception leaves it.
Resolve ==
    /\ pc = "tick"
    /\ ticks < MaxTicks
    /\ ticks' = ticks + 1
    /\ \E keys \in SUBSET Predicated, died \in Races :
         IF filter_net_connections(keys, died) # None
         THEN /\ Raise(filter_net_connections(keys, died))
              /\ UNCHANGED <<current, present, queue>>
         ELSE /\ \E conns \in [Groups -> SUBSET Ports] :
                   /\ \A g \in Groups \ keys : conns[g] = {}
                   /\ present' = keys
                   /\ current' = conns
                   /\ \E o \in Orders(keys) : queue' = o
              /\ pc' = "group"
              /\ UNCHANGED ctlVars
    /\ UNCHANGED <<inputVars, pass, freeIdVars, failures, kernelVars, mainRates,
                   setupVars, loopVars, name, new_ports, freed_ports, before, side,
                   atexit_stack, registered, rmmod_path, command_log>>

\* The real device's side before the IFB device's.
EgressFirst == Egress

\* cli.py:346-349: for each new port, `if ingress_class_id` comes before
\* `if egress_class_id`.
FirstSide == Ingress

\* Every port of the group, tracked or not.
AllPorts(n) == Sorted(current[n])

\* cli.py:338: sorted(ports.difference(filtered_ports[name])).
NewPorts(n) == Sorted(current[n] \ filtered_ports[n])

\* cli.py:332-338, 352: the next group of the result, its new and its freed
\* ports; reading filtered_ports[name] makes the defaultdict hold the key.
\* After the last group, the unmatched groups (cli.py:366).
NextGroup ==
    /\ pc = "group"
    /\ IF queue = <<>>
       THEN /\ pc' = "prune"
            /\ UNCHANGED <<queue, name, new_ports, freed_ports, tracked, side>>
       ELSE LET n == Head(queue) IN
            /\ name' = n
            /\ queue' = Tail(queue)
            /\ tracked' = tracked \cup {n}
            /\ new_ports' = NewPorts(n)
            /\ freed_ports' = Sorted(filtered_ports[n] \ current[n])
            /\ side' = FirstSide
            /\ pc' = "add"
    /\ UNCHANGED <<inputVars, pass, freeIdVars, ctlVars, failures, kernelVars, mainRates, setupVars,
                   class_ids, port_to_filter_id, filtered_ports, current, present,
                   before, atexit_stack, registered, ticks, rmmod_path, command_log>>

\* cli.py:345-349: after one side of a port, the other side or the next port.
AddAdvance ==
    IF side = FirstSide
    THEN side' = (IF FirstSide = Ingress THEN Egress ELSE Ingress) /\ UNCHANGED new_ports
    ELSE side' = FirstSide /\ new_ports' = Tail(new_ports)

\* cli.py:306-309, 312-315 with tc.py:219-224: for the next new port, on a
\* side where the group has a class: list the handles, then
\* tc filter add ... prio 1 u32 match ip {dport|sport} <port> 0xffff flowid.
AddFilter ==
    /\ pc = "add"
    /\ new_ports # <<>>
    /\ LET port == Head(new_ports)
           class_id == class_ids[side][name]
       IN  IF class_id # 0
           THEN /\ \E listed \in Outcomes, ok \in Outcomes :
                     /\ listed \/ ok
                     /\ Count(listed /\ ok)
                     /\ before' = Listed(side, listed)
                     /\ \E fs \in FilterAdded(side, 1, port, class_id, ok) :
                          /\ filters' = [filters EXCEPT ![side] = fs]
                          /\ Continue(fs # filters[side], "record")
                /\ UNCHANGED <<side, new_ports>>
           ELSE /\ AddAdvance
                /\ pc' = pc
                /\ UNCHANGED <<ctlVars, before, failures, filters>>
    /\ UNCHANGED <<inputVars, pass, freeIdVars, interfaces, module_loaded, ingress_attached,
                   redirect, htb, classes, mainRates, setupVars, loopVars, current,
                   present, queue, name, freed_ports, atexit_stack, registered, ticks, rmmod_path,
                   command_log>>

\* tc.py:226: difference = after.difference(before).
Difference(after, earlier) == after \ earlier

\* tc.py:225-230 with cli.py:310, 316: list the handles again, take one of
\* those the first listing did not hold and store it under the port;
\* set().pop() raises KeyError.
\* An exception unwinds main, whose locals are gone with its frame.  The
\* first listing stays in `before` until the next call overwrites it.
RecordFilter ==
    /\ pc = "record"
    /\ \E listed \in Outcomes :
         LET after == Listed(side, listed)
             difference == Difference(after, before)
         IN  /\ Count(listed)
             /\ IF difference = {}
                THEN /\ Raise("KeyError")
                     /\ UNCHANGED <<port_to_filter_id, side, new_ports>>
                ELSE /\ \E h \in difference :
                          port_to_filter_id' =
                             [port_to_filter_id EXCEPT ![side][Head(new_ports)] = h]
                     /\ AddAdvance
                     /\ pc' = "add"
                     /\ UNCHANGED ctlVars
    /\ UNCHANGED before
    /\ UNCHANGED <<inputVars, pass, freeIdVars, kernelVars, mainRates, setupVars, class_ids,
                   filtered_ports, tracked, current, present, queue, name,
                   freed_ports, atexit_stack, registered, ticks, rmmod_path, command_log>>

\* cli.py:351-353: all new ports done, on to the freed ports.
AddDone ==
    /\ pc = "add"
    /\ new_ports = <<>>
    /\ pc' = "remove"
    /\ side' = Ingress
    /\ UNCHANGED <<inputVars, pass, freeIdVars, ctlVars, failures, kernelVars, mainRates, setupVars,
                   loopVars, current, present, queue, name, new_ports, freed_ports,
                   before, atexit_stack, registered, ticks, rmmod_path, command_log>>

\* The kernel's answer to `tc filter del ... handle <fh> prio 1 ... u32`
\* (tc.py:233-237): the filter of that handle and priority goes, if there is one.
FilterDeleted(s, fh, ok) ==
    IF ok /\ htb[s]
    THEN {f \in filters[s] : ~(f.fh = fh /\ f.prio = 1)}
    ELSE filters[s]

\* cli.py:318-327: remove_filters(port), one side per step: when the registry
\* of the side has the port, delete the filter and drop the entry.
RemoveFilter ==
    /\ pc = "remove"
    /\ freed_ports # <<>>
    /\ LET port == Head(freed_ports)
           filter_id == port_to_filter_id[side][port]
       IN  IF filter_id # NoHandle
           THEN /\ \E ok \in Outcomes :
                     /\ Count(ok)
                     /\ filters' = [filters EXCEPT
                                      ![side] = FilterDeleted(side, filter_id, ok)]
                     /\ Continue(filters'[side] # filters[side], pc)
                /\ port_to_filter_id' =
                     IF run_raises(filters'[side] # filters[side]) THEN port_to_filter_id
                     ELSE [port_to_filter_id EXCEPT ![side][port] = NoHandle]
           ELSE /\ pc' = pc
                /\ UNCHANGED <<ctlVars, failures, filters, port_to_filter_id>>
    /\ IF side = Ingress
       THEN side' = Egress /\ UNCHANGED freed_ports
       ELSE side' = Ingress /\ freed_ports' = Tail(freed_ports)
    /\ UNCHANGED <<inputVars, pass, freeIdVars, interfaces, module_loaded, ingress_attached,
                   redirect, htb, classes, mainRates, setupVars, class_ids,
                   filtered_ports, tracked, current, present, queue, name,
                   new_ports, before, atexit_stack, registered, ticks, rmmod_path, command_log>>

\* cli.py:362 for a group of the result (filtered_ports[name] = ports) and
\* cli.py:376 for an unmatched one (del filtered_ports[name]).
RemoveDone ==
    /\ pc = "remove"
    /\ freed_ports = <<>>
    /\ IF name \in present
       THEN /\ filtered_ports' = [filtered_ports EXCEPT ![name] = current[name]]
            /\ pc' = "group"
            /\ UNCHANGED tracked
       ELSE /\ filtered_ports' = [filtered_ports EXCEPT ![name] = {}]
            /\ tracked' = tracked \ {name}
            /\ pc' = "prune"
    /\ name' = None
    /\ UNCHANGED <<inputVars, pass, freeIdVars, ctlVars, failures, kernelVars, mainRates, setupVars,
                   class_ids, port_to_filter_id, current, present, queue, new_ports,
                   freed_ports, before, side, atexit_stack, registered, ticks, rmmod_path, command_log>>

\* cli.py:366-367, 378: the next tracked group that the result does not
\* name, in the order the set yields; when none is left, sleep until the
\* next tick.
Prune ==
    /\ pc = "prune"
    /\ IF tracked \ present = {}
       THEN /\ pc' = "tick"
            /\ UNCHANGED <<name, freed_ports>>
       ELSE \E n \in tracked \ present :
              /\ name' = n
              /\ freed_ports' = Sorted(filtered_ports[n])
              /\ pc' = "remove"
    /\ side' = Ingress
    /\ UNCHANGED <<inputVars, pass, freeIdVars, ctlVars, failures, kernelVars, mainRates, setupVars,
                   loopVars, current, present, queue, new_ports, before,
                   atexit_stack, registered, ticks, rmmod_path, command_log>>

\* ------------------------------------------------------- leaving main
\* The positions inside cli.main (tc_setup included).
Running ==
    pc \in {"speed_test", "tc_setup_call", "attach_ingress", "acquire_ifb",
            "create_ifb", "activate_ifb", "redirect", "qdisc", "root_class",
            "default_class", "catchall", "register_clean_up", "group_class",
            "tick", "group", "add", "record", "remove", "prune"}

\* An exception that leaves main takes main's frame, and its locals, with it.
Unwind ==
    /\ global_download_rate' = None
    /\ global_upload_rate' = None
    /\ ifb_device' = None
    /\ root_class_id' = [s \in TrafficType |-> 0]
    /\ default_class_id' = [s \in TrafficType |-> 0]
    /\ class_ids' = [s \in TrafficType |-> [g \in Groups |-> 0]]
    /\ port_to_filter_id' = [s \in TrafficType |-> [p \in Ports |-> NoHandle]]
    /\ filtered_ports' = [g \in Groups |-> {}]
    /\ tracked' = {}
    /\ current' = [g \in Groups |-> {}]
    /\ present' = {}
    /\ queue' = <<>>
    /\ name' = None
    /\ new_ports' = <<>>
    /\ freed_ports' = <<>>
    /\ before' = {}
    /\ side' = Ingress

\* SIGINT: Python raises KeyboardInterrupt in the main thread between two
\* steps of main, wherever it is.
Interrupt ==
    /\ Running
    /\ pc' = "except"
    /\ exc' = "KeyboardInterrupt"
    /\ Unwind
    /\ UNCHANGED <<inputVars, pass, freeIdVars, logged, exit_code, failures, kernelVars,
                   atexit_stack, registered, ticks, rmmod_path, command_log>>

\* SIGTERM: the program installs no signal handler (__main__.py:9-25 and
\* cli.main call neither signal.signal nor anything that does), so the
\* default disposition ends the process where it is: no except clause runs
\* and no atexit handler; the status is 128 + 15.
Terminate ==
    /\ Running
    /\ pc' = "killed"
    /\ exit_code' = 143
    /\ Unwind
    /\ UNCHANGED <<inputVars, pass, freeIdVars, exc, logged, failures, kernelVars,
                   atexit_stack, registered, ticks, rmmod_path, command_log>>

\* __main__.py:16-25: the handlers around cli_main.  Each of them logs and
\* falls through to the end of main, which returns None: the interpreter
\* then runs the atexit handlers and exits with status 0.
Except ==
    /\ pc = "except"
    /\ logged' = CASE exc = "KeyboardInterrupt" -> "Aborted"
                   [] exc = "ConfigError" -> "Invalid configuration"
                   [] exc = "MissingDependencyError" -> "Missing dependency"
                   [] OTHER -> "Unexpected error occurred"
    /\ pc' = "atexit"
    /\ Unwind
    /\ UNCHANGED <<inputVars, pass, freeIdVars, exc, exit_code, failures, kernelVars, atexit_stack, registered,
                   ticks, rmmod_path, command_log>>

\* --------------------------------------------------------------- teardown
\* atexit runs the registered handlers last registered first; the handler
\* on top of the stack is the one running, and it is popped when it is done.
AtExit ==
    /\ pc = "atexit"
    /\ IF atexit_stack = <<>>
       THEN /\ pc' = "exited"
            /\ exit_code' = 0
       ELSE /\ pc' = (IF atexit_stack[Len(atexit_stack)].fn = "cli._clean_up"
                      THEN "remove_ifb_qdisc" ELSE "release_ifb")
            /\ UNCHANGED exit_code
    /\ UNCHANGED <<inputVars, pass, freeIdVars, exc, logged, failures, kernelVars, mainRates, setupVars,
                   loopVars, tickVars, side, atexit_stack, registered, rmmod_path, ticks,
                   command_log>>

Pop(stack) == SubSeq(stack, 1, Len(stack) - 1)

\* After a command inside an exit handler: on to position next; an exception
\* ends the handler, atexit prints it and goes on with the handlers left.
HandlerContinue(exit0, next) ==
    IF run_raises(exit0) \/ next = "atexit"
    THEN pc' = "atexit" /\ atexit_stack' = Pop(atexit_stack)
    ELSE pc' = next /\ UNCHANGED atexit_stack

\* tc.py:240-241: tc qdisc del dev <dev> parent root, on the root qdisc of a
\* side; the qdisc's classes and filters go with it.
tc_remove_qdisc(s, ok) ==
    /\ IF ok /\ htb[s]
       THEN /\ htb' = [htb EXCEPT ![s] = FALSE]
            /\ classes' = [classes EXCEPT ![s] = {}]
            /\ filters' = [filters EXCEPT ![s] = {}]
       ELSE UNCHANGED <<htb, classes, filters>>
    /\ UNCHANGED <<ingress_attached, redirect>>

\* cli.py:72: tc_remove_qdisc(ingress_device).
RemoveIfbQdisc ==
    /\ pc = "remove_ifb_qdisc"
    /\ \E ok \in Outcomes :
         /\ Count(ok)
         /\ tc_remove_qdisc(Ingress, ok)
         /\ HandlerContinue(ok /\ htb[Ingress], "remove_dev_qdisc")
    /\ command_log' = Append(command_log, "qdisc del ifb root")
    /\ UNCHANGED registered
    /\ UNCHANGED <<inputVars, pass, freeIdVars, ctlVars, interfaces, module_loaded, mainRates,
                   setupVars, loopVars, tickVars, side, rmmod_path, ticks>>

\* cli.py:73: tc_remove_qdisc(egress_device).
RemoveDevQdisc ==
    /\ pc = "remove_dev_qdisc"
    /\ \E ok \in Outcomes :
         /\ Count(ok)
         /\ tc_remove_qdisc(Egress, ok)
         /\ HandlerContinue(ok /\ htb[Egress], "remove_ingress_qdisc")
    /\ command_log' = Append(command_log, "qdisc del dev root")
    /\ UNCHANGED registered
    /\ UNCHANGED <<inputVars, pass, freeIdVars, ctlVars, interfaces, module_loaded, mainRates,
                   setupVars, loopVars, tickVars, side, rmmod_path, ticks>>

\* cli.py:74: tc_remove_qdisc(egress_device, INGRESS_QDISC_PARENT_ID); the
\* redirect filter goes with the ingress qdisc.  The handler is done.
RemoveIngressQdisc ==
    /\ pc = "remove_ingress_qdisc"
    /\ \E ok \in Outcomes :
         /\ Count(ok)
         /\ IF ok /\ ingress_attached
            THEN ingress_attached' = FALSE /\ redirect' = FALSE
            ELSE UNCHANGED <<ingress_attached, redirect>>
         /\ HandlerContinue(ok /\ ingress_attached, "atexit")
    /\ command_log' = Append(command_log, "qdisc del dev ingress")
    /\ UNCHANGED registered
    /\ UNCHANGED <<inputVars, pass, freeIdVars, ctlVars, interfaces, module_loaded, htb, classes,
                   filters, mainRates, setupVars, loopVars, tickVars, side,
                   rmmod_path, ticks>>

\* tc.py:31-38: rmmod ifb when remove_ifb_device, ip link set dev <name> down
\* when shutdown_ifb_device.  Unloading the module removes every ifb
\* interface and what is attached to it.  rmmod is looked up here for the
\* first time and the answer is cached (utils.py:9-12); without it run
\* raises RuntimeError, which ends the handler.
ReleaseIfb ==
    /\ pc = "release_ifb"
    /\ LET h == atexit_stack[Len(atexit_stack)] IN
         IF h.remove_ifb_device
         THEN \E path \in (IF rmmod_path = None THEN {"found", "missing"} ELSE {rmmod_path}) :
                /\ rmmod_path' = path
                /\ IF path = "missing"
                   THEN /\ command_log' = Append(command_log, "RuntimeError")
                        /\ UNCHANGED <<failures, interfaces, module_loaded, htb,
                                       classes, filters>>
                   ELSE \E ok \in Outcomes :
                          /\ Count(ok)
                          /\ command_log' = Append(command_log, "rmmod ifb")
                          /\ IF ok /\ module_loaded
                             THEN /\ module_loaded' = FALSE
                                  /\ interfaces' = [n \in IfbNames |-> "absent"]
                                  /\ htb' = [htb EXCEPT ![Ingress] = FALSE]
                                  /\ classes' = [classes EXCEPT ![Ingress] = {}]
                                  /\ filters' = [filters EXCEPT ![Ingress] = {}]
                             ELSE UNCHANGED <<interfaces, module_loaded, htb, classes,
                                              filters>>
         ELSE \E ok \in Outcomes :
                /\ Count(ok)
                /\ command_log' = Append(command_log, "ip link set down")
                /\ interfaces' =
                     IF ok /\ interfaces[h.shutdown_ifb_device] # "absent"
                     THEN [interfaces EXCEPT ![h.shutdown_ifb_device] = "down"]
                     ELSE interfaces
                /\ UNCHANGED <<module_loaded, htb, classes, filters, rmmod_path>>
    /\ atexit_stack' = Pop(atexit_stack)
    /\ pc' = "atexit"
    /\ UNCHANGED <<inputVars, pass, freeIdVars, registered, ctlVars, ingress_attached, redirect, mainRates,
                   setupVars, loopVars, tickVars, side, ticks>>

\* ---------------------------------------------------------- specification
Next ==
    \/ SpeedTest
    \/ TcSetupCall
    \/ AttachIngress
    \/ AcquireIfb
    \/ CreateIfb
    \/ ActivateIfb
    \/ Redirect
    \/ AddRootQdisc
    \/ AddRootClass
    \/ AddDefaultClass
    \/ AddCatchAll
    \/ RegisterCleanUp
    \/ GroupClass
    \/ Resolve
    \/ NextGroup
    \/ AddFilter
    \/ RecordFilter
    \/ AddDone
    \/ RemoveFilter
    \/ RemoveDone
    \/ Prune
    \/ Interrupt
    \/ Terminate
    \/ Except
    \/ AtExit
    \/ RemoveIfbQdisc
    \/ RemoveDevQdisc
    \/ RemoveIngressQdisc
    \/ ReleaseIfb

Spec == Init /\ [][Next]_vars

\* ================================================================ claims
\* The priority-1 port filters the kernel holds on a side.
PortFilters(s) == {f \in filters[s] : f.prio = 1}
\* Between two ticks: topology built, no tick in progress.
BetweenTicks == pc = "tick"

DirectedTo(s, id) ==
    {p \in Ports : \E f \in PortFilters(s) :
                      f.fh = port_to_filter_id[s][p] /\ f.flowid = id}

TearingDown ==
    pc \in {"atexit", "remove_ifb_qdisc", "remove_dev_qdisc", "remove_ingress_qdisc",
            "release_ifb", "exited"}
QdiscCommands == {"qdisc del ifb root", "qdisc del dev root", "qdisc del dev ingress"}
IfbCommands == {"rmmod ifb", "ip link set down", "RuntimeError"}

\* C5: the release commands run last registered first: every command that
\* removes a qdisc is issued before the command that releases the IFB
\* device, and no release command is issued while main is still running.
C5_TeardownLIFO ==
    /\ \A i, j \in 1..Len(command_log) :
          (command_log[i] \in IfbCommands /\ command_log[j] \in QdiscCommands) => j < i
    /\ command_log # <<>> => TearingDown

\* A run that went through a tick, registered both handlers and has exited
\* after all three qdisc removals and the IFB release.
C5_Witness ==
    /\ pc = "exited"
    /\ ticks > 0
    /\ Len(command_log) = 4
    /\ command_log[4] \in {"rmmod ifb", "ip link set down"}

\* ------------------------------------------ the teardown sequence, twice
\* The handlers a run can have registered (tc.py:65, tc.py:70, cli.py:191).
TeardownHandlers ==
    { <<QDiscHandler>>,
      <<ShutdownIfbHandler("ifb0"), QDiscHandler>>,
      <<RemoveIfbHandler, QDiscHandler>> }

\* The exit handlers about to run on any kernel and host state: each qdisc
\* there or not, the ifb interfaces and module in any state.  The required
\* tools are installed and no command fails without a cause in that state.
InitTeardown ==
    /\ nargs = TcSetupParams
    /\ speed_test = FALSE
    /\ config = [download |-> None, upload |-> None, processes |-> OneGroup]
    /\ pc = "atexit"
    /\ exc = "KeyboardInterrupt"
    /\ logged = "Aborted"
    /\ exit_code = -1
    /\ failures = MaxFailures
    /\ \E h \in HostStates \cup {Host("up", "up", TRUE), Host("down", "down", TRUE)} :
         /\ host0 = h
         /\ interfaces = h.ifs
         /\ module_loaded = h.module
    /\ ingress_attached \in BOOLEAN
    /\ redirect = ingress_attached
    /\ htb \in [TrafficType -> BOOLEAN]
    /\ htb[Ingress] => interfaces["ifb0"] # "absent"
    /\ classes = [s \in TrafficType |->
                    IF htb[s] THEN {[id |-> 1, parent |-> 0, rate |-> MAX_RATE,
                                     ceil |-> None, prio |-> NoPriority]}
                    ELSE {}]
    /\ filters = [s \in TrafficType |->
                    IF htb[s] THEN {[fh |-> <<2, 1>>, prio |-> 2, port |-> 0, flowid |-> 2]}
                    ELSE {}]
    /\ global_download_rate = None
    /\ global_upload_rate = None
    /\ ifb_device = None
    /\ root_class_id = [s \in TrafficType |-> 0]
    /\ class_ids = [s \in TrafficType |-> [g \in Groups |-> 0]]
    /\ port_to_filter_id = [s \in TrafficType |-> [p \in Ports |-> NoHandle]]
    /\ filtered_ports = [g \in Groups |-> {}]
    /\ tracked = {}
    /\ \E hs \in TeardownHandlers :
         /\ atexit_stack = hs
         /\ registered = hs
    /\ pass = 1
    /\ rmmod_path = "found"
    /\ current = [g \in Groups |-> {}]
    /\ present = {}
    /\ queue = <<>>
    /\ name = None
    /\ new_ports = <<>>
    /\ freed_ports = <<>>
    /\ before = {}
    /\ side = Ingress
    /\ default_class_id = [s \in TrafficType |-> 0]
    /\ ticks = 0
    /\ command_log = <<>>
    /\ used_ids = {}
    /\ free_id = 0

\* The same handlers run once more, in the same order.
RunTeardownAgain ==
    /\ pc = "exited"
    /\ pass = 1
    /\ pass' = 2
    /\ atexit_stack' = registered
    /\ pc' = "atexit"
    /\ exit_code' = -1
    /\ UNCHANGED <<inputVars, freeIdVars, registered, exc, logged, failures, kernelVars,
                   mainRates,
                   setupVars, loopVars, tickVars, side, rmmod_path, ticks, command_log>>

NextTeardown ==
    \/ AtExit
    \/ RemoveIfbQdisc
    \/ RemoveDevQdisc
    \/ RemoveIngressQdisc
    \/ ReleaseIfb
    \/ RunTeardownAgain

SpecTeardown == InitTeardown /\ [][NextTeardown]_vars

\* The commands one run of the handlers hs issues when none of them raises.
CommandsOf(hs) ==
    LET n == Len(hs) IN 3 * Cardinality({i \in 1..n : hs[i].fn = "cli._clean_up"})
                        + Cardinality({i \in 1..n : hs[i].fn = "tc._clean_up"})

\* C6: the second run of the teardown sequence changes nothing in the kernel
\* or on the host, and no command of it raises: it issues every command of
\* the sequence again.
C6_TeardownIdempotent ==
    [][pass = 2 =>
         /\ UNCHANGED kernelVars
         /\ pc' = "exited" => Len(command_log') = 2 * CommandsOf(registered)]_vars

\* Both runs done; the first one removed the qdiscs' module and interfaces,
\* the second one found them missing.
C6_Witness ==
    /\ pc = "exited"
    /\ pass = 2
    /\ host0.module
    /\ ~module_loaded
    /\ Len(command_log) = 8

C8_ExitStatus ==
    pc = "exited" =>
        IF exc = "KeyboardInterrupt" THEN exit_code = 0 ELSE exit_code # 0

\* C9: with --speed-test, whatever the speed-test helper does, the step after
\* it is the call of tc_setup, with the global rates of the configuration or
\* the measured ones.
C9_SpeedTestNonFatal ==
    [][(pc = "speed_test" /\ speed_test /\ exc' # "KeyboardInterrupt") =>
          /\ pc' = "tc_setup_call"
          /\ global_download_rate' \in
                {IF config.download = None THEN MAX_RATE ELSE config.download,
                 "measured_download"}]_vars

AfterSetup ==
    pc \in {"register_clean_up", "group_class", "tick", "group", "add", "record",
            "remove", "prune"}
CatchAll(s) == {f \in filters[s] : f.prio = 2 /\ f.port = 0}

MaxPriority == 5
Priorities == {NoPriority} \cup (0..MaxPriority)

\* Configurations for the priority rule: group a with both rates, group b
\* with none, each with any or no priority per direction.
PriorityRuns ==
    { Run(TcSetupParams, FALSE, "8mbps",
          [g \in Groups |->
             IF g = "a" THEN GroupRecord(TRUE, "2mbps", "1mbps", adp, aup)
             ELSE GroupRecord(TRUE, None, None, bdp, bup)],
          Host("absent", "absent", FALSE))
      : adp \in Priorities, aup \in Priorities, bdp \in Priorities, bup \in Priorities }

InitPriority == Started(PriorityRuns, MaxFailures) /\ NoFreeIdCall

\* main from its start to the end of the class set-up loop.
NextPriority ==
    \/ SpeedTest
    \/ TcSetupCall
    \/ AttachIngress
    \/ AcquireIfb
    \/ CreateIfb
    \/ ActivateIfb
    \/ Redirect
    \/ AddRootQdisc
    \/ AddRootClass
    \/ AddDefaultClass
    \/ AddCatchAll
    \/ RegisterCleanUp
    \/ GroupClass

SpecPriority == InitPriority /\ [][NextPriority]_vars

\* The priorities the groups of the configuration specify.
Specified ==
    {config.processes[g].download_priority : g \in Groups}
        \cup {config.processes[g].upload_priority : g \in Groups}
LeafPriority(s, g) ==
    {c.prio : c \in {c \in classes[s] : c.id = class_ids[s][g]}}
PriorityOf(s, g) ==
    IF s = Ingress THEN config.processes[g].download_priority
    ELSE config.processes[g].upload_priority

\* C12: lowest_priority is 1 plus the greatest priority any group specifies,
\* -1 standing for a missing one (0 when none is specified, 6 for 2, 5 and
\* 3), and the leaf class of a group that does not specify the priority of
\* the direction is created with it.
C12_DefaultPriorityRule ==
    /\ \E m \in Specified \cup {NoPriority} :
          /\ \A x \in Specified : x <= m
          /\ lowest_priority = m + 1
    /\ (Specified = {NoPriority}) => lowest_priority = 0
    /\ (Specified \ {NoPriority} = {2, 5, 3}) => lowest_priority = 6
    /\ \A s \in TrafficType, g \in Groups :
          (class_ids[s][g] # 0 /\ PriorityOf(s, g) = NoPriority)
              => LeafPriority(s, g) = {lowest_priority}

\* The class loop is done for priorities 2, 5 and 3, and group a's upload
\* leaf, whose priority is not specified, exists.
C12_Witness ==
    /\ pc = "tick"
    /\ Specified \ {NoPriority} = {2, 5, 3}
    /\ config.processes["a"].upload_priority = NoPriority
    /\ class_ids[Egress]["a"] # 0
    /\ LeafPriority(Egress, "a") = {6}

\* ------------------------------------------------ _find_free_id on its own
MaxId == 7

\* Any set of ids between 1 and MaxId, before the call.
InitFreeId ==
    /\ Started({Run(TcSetupParams, FALSE, None, OneGroup, Host("absent", "absent", FALSE))},
               MaxFailures)
    /\ used_ids \in SUBSET (1..MaxId)
    /\ free_id = 0

\* tc.py:74-81: the call and its result.
FindFreeId ==
    /\ free_id = 0
    /\ free_id' = _find_free_id(used_ids)
    /\ UNCHANGED <<inputVars, pass, used_ids, pc, ctlVars, failures, kernelVars, mainRates,
                   setupVars, loopVars, tickVars, side, atexit_stack, registered,
                   rmmod_path, ticks, command_log>>

NextFreeId == FindFreeId

SpecFreeId == InitFreeId /\ [][NextFreeId]_vars

\* C13: what _find_free_id returns for a set of positive integers is a
\* positive integer that is not in the set, and every positive integer below
\* it is in the set; for the empty set it is 1.
C13_FreeIdSmallest ==
    free_id # 0 =>
        /\ free_id \in Nat \ {0}
        /\ free_id \notin used_ids
        /\ \A n \in 1..(free_id - 1) : n \in used_ids
        /\ used_ids = {} => free_id = 1

\* The call has returned for a set with a gap: 3 is the smallest id missing
\* although greater ids are in use.
C13_Witness ==
    /\ used_ids = {1, 2, 4, 6}
    /\ free_id = 3

\* The kernel's port filters of side s that direct to the leaf class of g.
LeafFilters(s, g) ==
    {f \in PortFilters(s) : class_ids[s][g] # 0 /\ f.flowid = class_ids[s][g]}

Other(s) == IF s = Ingress THEN Egress ELSE Ingress

InTick == pc \in {"group", "add", "record", "remove", "prune"}

\* The resolver's result is the tracked state: same groups, same ports.
SameAsTracked ==
    /\ present = tracked
    /\ \A g \in Groups : current[g] = filtered_ports[g]

\* C16: in a tick whose resolver result is the tracked state, no step of the
\* loop issues a tc filter add or delete (an add leads to the reading of the
\* new handle, a delete drops a registry entry), and the kernel's filters,
\* the registry and the tracked ports stay as they are.
C16_NoOpTick ==
    [][(InTick /\ SameAsTracked /\ Running') =>
          /\ pc' # "record"
          /\ UNCHANGED <<filters, port_to_filter_id, filtered_ports, tracked>>
          /\ failures' = failures]_vars

\* The second tick, two steps in: group a alone, with the port it already
\* had and the filter of that port in the registry; nothing to add.
C16_Witness ==
    /\ pc = "remove"
    /\ ticks = 2
    /\ name = "a"
    /\ present = {"a"}
    /\ tracked = {"a"}
    /\ current["a"] = {1}
    /\ filtered_ports["a"] = {1}
    /\ freed_ports = <<>>
    /\ port_to_filter_id[Ingress][1] # NoHandle

EndedBySignal ==
    \/ pc = "exited" /\ exc = "KeyboardInterrupt"
    \/ pc = "killed"
\* Nothing the controller installed is left in the kernel.
NothingInstalled ==
    /\ ~ingress_attached
    /\ ~redirect
    /\ \A s \in TrafficType : ~htb[s] /\ classes[s] = {} /\ filters[s] = {}

LeafPorts(s, g) == {f.port : f \in LeafFilters(s, g)}

BothLeaves == class_ids[Ingress][name] # 0 /\ class_ids[Egress][name] # 0

\* The egress filter of the next new port is what add_egress_filter is about
\* to be called for, for a group with both leaves.
EgressAddNext == pc = "add" /\ side = Egress /\ new_ports # <<>> /\ BothLeaves
\* tc_add_u32_filter has issued its tc filter add on the ingress side and is
\* about to return to add_ingress_filter.
IngressAddIssued == pc = "record" /\ side = Ingress

\* C20: for a group with both leaves, the add of a new port's egress filter
\* comes up only on the return of the add of that port's ingress filter,
\* and that return only after the tc filter add on the ingress side was
\* issued; and for one group of a tick the removals come after the
\* additions: while filters are removed no new port is left, no step leads
\* from removing back to adding for the same group, and the group is not
\* queued for a second pass in the tick.
C20_IngressBeforeEgress ==
    /\ [][(~EgressAddNext /\ EgressAddNext')
            => IngressAddIssued /\ new_ports' = new_ports /\ name' = name]_vars
    /\ [][(~IngressAddIssued /\ IngressAddIssued')
            => /\ pc = "add" /\ side = Ingress /\ class_ids[Ingress][name] # 0
               /\ new_ports' = new_ports /\ name' = name]_vars
    /\ [](pc = "remove" => new_ports = <<>>)
    /\ [](pc \in {"add", "record", "remove"}
            => \A i \in 1..Len(queue) : queue[i] # name)
    /\ [][pc = "remove" => ~(pc' \in {"add", "record"} /\ name' = name)]_vars

\* The egress filter of a new port is about to be added for a group with
\* both leaves that also has a freed port in this tick.
C20_Witness ==
    /\ pc = "add" /\ side = Egress /\ new_ports # <<>> /\ BothLeaves
    /\ freed_ports # <<>>

\* ------------------------------------------------- which groups get a leaf
\* Configurations for the leaf creation rule: group a matched, with or
\* without a rate and a priority per direction and with both minimums set;
\* group b either without match conditions but with rates, or matched with
\* minimums only.
LeafRuns ==
    { Run(TcSetupParams, FALSE, "8mbps",
          [g \in Groups |->
             IF g = "a"
             THEN WithMinimum(GroupRecord(TRUE, d, u, dp, up), "20kbps", "2kbps")
             ELSE b],
          Host("absent", "absent", FALSE))
      : d \in {None, "2mbps"}, u \in {None, "1mbps"},
        dp \in {NoPriority, 1}, up \in {NoPriority, 1},
        b \in {NoMatch, WithMinimum(GroupRecord(TRUE, None, None, NoPriority, NoPriority),
                                   "20kbps", "2kbps")} }

InitLeaf == Started(LeafRuns, MaxFailures - 1) /\ NoFreeIdCall

\* main from its start through the ticks of the loop.
NextLeaf ==
    \/ SpeedTest
    \/ TcSetupCall
    \/ AttachIngress
    \/ AcquireIfb
    \/ CreateIfb
    \/ ActivateIfb
    \/ Redirect
    \/ AddRootQdisc
    \/ AddRootClass
    \/ AddDefaultClass
    \/ AddCatchAll
    \/ RegisterCleanUp
    \/ GroupClass
    \/ Resolve
    \/ NextGroup
    \/ AddFilter
    \/ RecordFilter
    \/ AddDone
    \/ RemoveFilter
    \/ RemoveDone
    \/ Prune

SpecLeaf == InitLeaf /\ [][NextLeaf]_vars

\* What the configuration of group g sets for side s: a rate, a priority.
SetsRate(s, g) ==
    IF s = Ingress THEN config.processes[g].download # None
    ELSE config.processes[g].upload # None
SetsPriority(s, g) == PriorityOf(s, g) # NoPriority
\* The classes of side s with the id recorded for group g.
LeafOf(s, g) == {c \in classes[s] : c.id = class_ids[s][g]}

\* The class set-up loop of main is done (cli.py:198-299).
ClassesDone == BetweenTicks \/ InTick

\* C21: once the class loop is done, a group with match conditions has a
\* leaf class id on a side exactly when it sets the rate or the priority of
\* that side (a minimum alone gives none), and when no command has failed
\* that class is in the kernel; a group without match conditions has no leaf
\* class id on either side, is never in the resolver's result, is never
\* tracked and is never the group a filter is added for.
C21_LeafCreationRule ==
    /\ ClassesDone =>
          \A g \in Groups, s \in TrafficType :
             /\ config.processes[g].match =>
                   /\ class_ids[s][g] # 0 <=> (SetsRate(s, g) \/ SetsPriority(s, g))
                   /\ (class_ids[s][g] # 0 /\ failures = MaxFailures - 1)
                         => LeafOf(s, g) # {}
             /\ ~config.processes[g].match => class_ids[s][g] = 0
    /\ \A g \in Groups :
          ~config.processes[g].match =>
             /\ g \notin present
             /\ g \notin tracked
             /\ filtered_ports[g] = {}
             /\ name # g

\* The loop runs for a configuration in which group a sets only the upload
\* priority and both minimums, and group b only minimums: a has an egress
\* leaf and no ingress leaf, b has none.
C21_Witness ==
    /\ InTick
    /\ ~SetsRate(Ingress, "a") /\ ~SetsPriority(Ingress, "a")
    /\ ~SetsRate(Egress, "a") /\ SetsPriority(Egress, "a")
    /\ config.processes["b"].match
    /\ class_ids[Ingress]["a"] = 0 /\ LeafOf(Egress, "a") # {}
    /\ class_ids[Egress]["b"] = 0 /\ class_ids[Ingress]["b"] = 0
    /\ "b" \in present

\* ------------------------------------------------- the global default leaves
\* cli.py:135-136: the priority main computes for the default leaf of a side.
GlobalPriority(s) ==
    IF s = Ingress THEN global_download_priority ELSE global_upload_priority
\* The default leaf of side s as the claim describes it.
DefaultLeaf(s) ==
    {c \in classes[s] : /\ c.id = default_class_id[s]
                        /\ c.ceil = SetupRate(s)
                        /\ c.rate = SetupMinimumRate(s)
                        /\ c.prio = GlobalPriority(s)}

\* C22: the call of tc_setup that main makes, with the device and six more
\* arguments, completes unless a signal arrives (tc_setup starts on its
\* first command), and when it has returned without a failed command each side has its default leaf
\* with the side's ceiling, minimum and global priority.
C22_GlobalDefaultLeaves ==
    /\ [][(pc = "tc_setup_call" /\ nargs = MainCallArgs
              /\ pc' # "killed" /\ exc' # "KeyboardInterrupt")
              => pc' = "attach_ingress"]_vars
    /\ []((pc = "register_clean_up" /\ nargs = MainCallArgs /\ failures = 0)
              => \A s \in TrafficType : DefaultLeaf(s) # {})

\* ------------------------------------------ the handle tc_add_u32_filter returns
\* The handle tc_add_u32_filter has returned for the port, as main stores it.
Returned == port_to_filter_id'[side][Head(new_ports)]

WithLeaf(s) == {g \in Groups : class_ids[s][g] # 0}

Registered(s) == {p \in Ports : port_to_filter_id[s][p] # NoHandle}

Releasing == pc = "remove" /\ freed_ports # <<>>
ReleasedHandle == port_to_filter_id[side][Head(freed_ports)]

====
